---- MODULE Spec2Model ----
(***************************************************************************)
(* The transaction layer of the Basis core: permission-gated create /      *)
(* update / delete of agreements, commitments and intents, and the         *)
(* deliver_service cost movement between two processes.                    *)
(*                                                                         *)
(* Every transaction is a pure function from its arguments to              *)
(* Result<Modifications>.  The operators below are those functions.        *)
(*                                                                         *)
(* Spec      one call: any transaction, on arguments drawn from small      *)
(*           sets; `last` records the operation, arguments and result.     *)
(* SpecOrder an agreement over time: callers read the stored agreement,    *)
(*           call a transaction with it, and storage applies the batch.    *)
(* SpecLife  a commitment over time: created under a stored agreement,     *)
(*           updated and deleted, each batch applied by storage.           *)
(* SpecAgent   an id wrapped into an AgentID and narrowed to a kind.       *)
(* SpecCosts   two Costs merged and the merge undone.                      *)
(* SpecClients two clients reading processes, calling deliver_service and  *)
(*           having their batches applied by one storage.                  *)
(* SpecClock a commitment created, updated and deleted at times that never *)
(*           go back.                                                      *)
(***************************************************************************)
EXTENDS Integers, Sequences, FiniteSets, TLC

VARIABLES
    last,       \* the most recent call: [op, in, res]
    storage     \* what the storage collaborator holds: [agreement, emptied]

vars == <<last, storage>>

(***************************************************************************)
(* Bounds                                                                  *)
(***************************************************************************)
\* injected timestamps are 1..MaxNow
MaxNow == 2
\* a move-cost vector carries 0..MaxMove in every category
MaxMove == 1
\* the largest quantity, either side of zero, in the cost vectors the Costs
\* operations are tried on
MaxCost == 2

(***************************************************************************)
(* Option<T>, Result<T>, Modifications                                     *)
(***************************************************************************)
\* Option<T>: None is the empty tuple, Some(x) the one-element tuple, so
\* that Option<Option<T>> keeps None, Some(None) and Some(Some(x)) apart.
None == <<>>
Some(x) == <<x>>
IsSome(o) == o # None
Unwrap(o) == o[1]
OptionOf(S) == {None} \cup {Some(x) : x \in S}

InsufficientPrivileges == "InsufficientPrivileges"
CompanyIsDeleted == "CompanyIsDeleted"
WrongAgentIDType == "WrongAgentIDType"
ProcessOwnerMismatch == "Event(ProcessOwnerMismatch)"
ObjectIsInactive(kind) == "ObjectIsInactive(" \o kind \o ")"
ObjectIsDeleted(kind) == "ObjectIsDeleted(" \o kind \o ")"

\* Result<Modifications>: Err carries no modification at all.
Ok(mods) == [ok |-> TRUE, err |-> "", mods |-> mods]
Err(e) == [ok |-> FALSE, err |-> e, mods |-> <<>>]

\* One Modification: the operation, the model kind and the record snapshot.
Modification(op, kind, model) == [op |-> op, kind |-> kind, model |-> model]
\* Modifications::new_single
new_single(op, kind, model) == <<Modification(op, kind, model)>>

\* a store keyed by record id after a batch is applied to it, one
\* modification after the other: the record of each modification takes the
\* place of the stored one with its id; records the store does not hold
\* are left out
RECURSIVE apply_batch(_, _)
apply_batch(store, mods) ==
    IF mods = <<>> THEN store
    ELSE LET mod == Head(mods)
         IN  apply_batch(
                IF mod.model.id \in DOMAIN store
                THEN [store EXCEPT ![mod.model.id] = mod.model]
                ELSE store,
                Tail(mods))

(***************************************************************************)
(* Identities                                                              *)
(***************************************************************************)
UserIDs == {"u1", "u2"}
CompanyIDs == {"c1", "c2"}
ProcessIDs == {"p1", "p2", "p3"}
Times == 1..MaxNow

\* enum AgentID: the variant tag and the wrapped id
AgentKinds == {"BankID", "CompanyID", "CompanyMemberID", "RegionID", "UserID"}
\* impl From<$idty> for AgentID
AgentID_from(idty, val) == [kind |-> idty, id |-> val]
\* the narrowing that hands out the wrapped id whatever the variant
AgentID_try_from_any(idty, val) == [ok |-> TRUE, err |-> "", id |-> val.id]

\* impl TryFrom<AgentID> for $idty
AgentID_try_from(idty, val) ==
    IF val.kind = idty THEN [ok |-> TRUE, err |-> "", id |-> val.id]
    ELSE [ok |-> FALSE, err |-> WrongAgentIDType, id |-> None]

\* The agents used as providers, receivers and participants: the two
\* companies, and a member whose raw id equals the first company's.
Agents == {AgentID_from("CompanyID", c) : c \in CompanyIDs}
          \cup {AgentID_from("CompanyMemberID", "c1")}

(***************************************************************************)
(* Access control                                                          *)
(***************************************************************************)
Permissions == {"EventCreate", "CompanyUpdateAgreements",
                "CompanyUpdateCommitments", "CompanyUpdateIntents"}
CompanyPermissions == {"AgreementCreate", "AgreementUpdate",
                       "CommitmentCreate", "CommitmentUpdate",
                       "CommitmentDelete", "IntentCreate", "DeliverService"}

\* User::access_check(permission): the caller's own capability set
user_access_check(caller, permission) == permission \in caller.permissions

\* Member::access_check(user_id, company_id, permission): the membership
\* record must be the caller's, in the target company, and list the
\* company permission.
member_access_check(member, user_id, company_id, permission) ==
    /\ member.user_id = user_id
    /\ member.company_id = company_id
    /\ permission \in member.permissions

\* Model::is_deleted: the deleted timestamp is set
is_deleted(model) == IsSome(model.deleted)
\* Model::is_active: flagged active and not soft-deleted
is_active(model) == model.active /\ ~is_deleted(model)
\* Agent::agent_id for a company
agent_id(company) == AgentID_from("CompanyID", company.id)

(***************************************************************************)
(* Costs: a quantity per category, in units of the smallest decimal step   *)
(***************************************************************************)
Categories == {"labor:lawyer", "resource:widget"}
\* the sum that stops at zero
costs_add_clamped(a, b) ==
    [c \in Categories |-> IF a[c] + b[c] < 0 THEN 0 ELSE a[c] + b[c]]

\* Costs + Costs: merge, the category-wise sum
costs_add(a, b) == [c \in Categories |-> a[c] + b[c]]
\* -Costs: negate
costs_negate(a) == [c \in Categories |-> 0 - a[c]]
\* Costs::is_zero
costs_is_zero(a) == \A c \in Categories : a[c] = 0
\* Costs - Costs
costs_sub(a, b) == [c \in Categories |-> a[c] - b[c]]

(***************************************************************************)
(* Events and processes (transactions/event/service.rs)                    *)
(***************************************************************************)
\* Event::process for a DeliverService event: the process the event is the
\* output of must belong to the provider, the process it is the input of to
\* the receiver; the move costs leave the former and enter the latter.
event_process(event, state, now) ==
    LET provider == AgentID_try_from("CompanyID", event.inner.provider)
        receiver == AgentID_try_from("CompanyID", event.inner.receiver)
        move_costs == Unwrap(event.move_costs)
        output_of == state.output_of
        input_of == state.input_of
    IN  IF ~provider.ok THEN Err(provider.err)
        ELSE IF ~receiver.ok THEN Err(receiver.err)
        ELSE IF output_of.company_id # provider.id THEN Err(ProcessOwnerMismatch)
        ELSE IF input_of.company_id # receiver.id THEN Err(ProcessOwnerMismatch)
        ELSE Ok(<<
            Modification("Update", "Process",
                [output_of EXCEPT !.costs = costs_sub(output_of.costs, move_costs)]),
            Modification("Update", "Process",
                [input_of EXCEPT !.costs = costs_add(input_of.costs, move_costs)])
        >>)

\* EventProcessState with the two processes the wrong way round
deliver_service_state_swapped(process_from, process_to) ==
    [output_of |-> process_to, input_of |-> process_from]

\* EventProcessState::builder().output_of(process_from).input_of(process_to)
deliver_service_state(process_from, process_to) ==
    [output_of |-> process_from, input_of |-> process_to]

\* the event naming company_from as its receiver as well, so that
\* process_to is checked against company_from
deliver_service_event_one_owner(company_from, company_to, id, process_from_id, process_to_id, move_costs, now) ==
    [id |-> id,
     inner |-> [
        action |-> "Action::DeliverService",
        has_point_in_time |-> Some(now),
        input_of |-> Some(process_to_id),
        provider |-> AgentID_from("CompanyID", company_from.id),
        receiver |-> AgentID_from("CompanyID", company_from.id),
        output_of |-> Some(process_from_id)],
     move_costs |-> Some(move_costs),
     active |-> TRUE,
     created |-> now,
     updated |-> now,
     deleted |-> None]

\* the event with the two processes named the wrong way round
deliver_service_event_ends_swapped(company_from, company_to, id, process_from_id, process_to_id, move_costs, now) ==
    [id |-> id,
     inner |-> [
        action |-> "Action::DeliverService",
        has_point_in_time |-> Some(now),
        input_of |-> Some(process_from_id),
        provider |-> AgentID_from("CompanyID", company_from.id),
        receiver |-> AgentID_from("CompanyID", company_to.id),
        output_of |-> Some(process_to_id)],
     move_costs |-> Some(move_costs),
     active |-> TRUE,
     created |-> now,
     updated |-> now,
     deleted |-> None]

\* Event::builder() ... .build(): every required field is supplied, so
\* BuilderFailed cannot arise.
deliver_service_event(company_from, company_to, id, process_from_id, process_to_id, move_costs, now) ==
    [id |-> id,
     inner |-> [
        action |-> "Action::DeliverService",
        has_point_in_time |-> Some(now),
        input_of |-> Some(process_to_id),
        provider |-> AgentID_from("CompanyID", company_from.id),
        receiver |-> AgentID_from("CompanyID", company_to.id),
        output_of |-> Some(process_from_id)],
     move_costs |-> Some(move_costs),
     active |-> TRUE,
     created |-> now,
     updated |-> now,
     deleted |-> None]

\* the batch with the event pushed after the process updates
deliver_service_mods_event_last(event, evmods) ==
    evmods \o new_single("Create", "Event", event)

\* the batch with the event alone, the process updates left out
deliver_service_mods_event_only(event, evmods) ==
    new_single("Create", "Event", event)

\* the batch without the first modification of event.process
deliver_service_mods_from_dropped(event, evmods) ==
    new_single("Create", "Event", event) \o Tail(evmods)

\* mods.push(Op::Create, event); then every modification of event.process
deliver_service_mods(event, evmods) ==
    new_single("Create", "Event", event) \o evmods

\* the membership checked against company_to instead of company_from
deliver_service_access_company_to(caller, member, company_from, company_to) ==
    IF ~user_access_check(caller, "EventCreate") THEN Err(InsufficientPrivileges)
    ELSE IF ~member_access_check(member, caller.id, company_to.id, "DeliverService")
        THEN Err(InsufficientPrivileges)
    ELSE IF is_deleted(company_from) THEN Err(CompanyIsDeleted)
    ELSE IF is_deleted(company_to) THEN Err(CompanyIsDeleted)
    ELSE Ok(<<>>)

\* the checks that open deliver_service without the one on company_to
deliver_service_access_from_only(caller, member, company_from, company_to) ==
    IF ~user_access_check(caller, "EventCreate") THEN Err(InsufficientPrivileges)
    ELSE IF ~member_access_check(member, caller.id, company_from.id, "DeliverService")
        THEN Err(InsufficientPrivileges)
    ELSE IF is_deleted(company_from) THEN Err(CompanyIsDeleted)
    ELSE Ok(<<>>)

\* the checks that open deliver_service with the membership asked for in
\* both companies
deliver_service_access_both(caller, member, company_from, company_to) ==
    IF ~user_access_check(caller, "EventCreate") THEN Err(InsufficientPrivileges)
    ELSE IF ~member_access_check(member, caller.id, company_from.id, "DeliverService")
        THEN Err(InsufficientPrivileges)
    ELSE IF ~member_access_check(member, caller.id, company_to.id, "DeliverService")
        THEN Err(InsufficientPrivileges)
    ELSE IF is_deleted(company_from) THEN Err(CompanyIsDeleted)
    ELSE IF is_deleted(company_to) THEN Err(CompanyIsDeleted)
    ELSE Ok(<<>>)

\* the checks that open deliver_service asking for active companies
deliver_service_access_active(caller, member, company_from, company_to) ==
    IF ~user_access_check(caller, "EventCreate") THEN Err(InsufficientPrivileges)
    ELSE IF ~member_access_check(member, caller.id, company_from.id, "DeliverService")
        THEN Err(InsufficientPrivileges)
    ELSE IF ~is_active(company_from) THEN Err(ObjectIsInactive("company"))
    ELSE IF ~is_active(company_to) THEN Err(ObjectIsInactive("company"))
    ELSE Ok(<<>>)

\* the checks that open deliver_service, in the order of the code
deliver_service_access(caller, member, company_from, company_to) ==
    IF ~user_access_check(caller, "EventCreate") THEN Err(InsufficientPrivileges)
    ELSE IF ~member_access_check(member, caller.id, company_from.id, "DeliverService")
        THEN Err(InsufficientPrivileges)
    ELSE IF is_deleted(company_from) THEN Err(CompanyIsDeleted)
    ELSE IF is_deleted(company_to) THEN Err(CompanyIsDeleted)
    ELSE Ok(<<>>)

\* deliver_service: move costs from process_from to process_to and record
\* the event.
deliver_service(caller, member, company_from, company_to, id, process_from, process_to, move_costs, now) ==
    LET access == deliver_service_access(caller, member, company_from, company_to)
        state == deliver_service_state(process_from, process_to)
        event == deliver_service_event(company_from, company_to, id,
                    process_from.id, process_to.id, move_costs, now)
        evmods == event_process(event, state, now)
    IN  IF ~access.ok THEN access
        ELSE IF ~evmods.ok THEN evmods
        ELSE Ok(deliver_service_mods(event, evmods.mods))

(***************************************************************************)
(* Agreements (transactions/agreement.rs)                                  *)
(***************************************************************************)
\* Agreement::has_participant
has_participant(agreement, agent) ==
    \E i \in 1..Len(agreement.participants) : agreement.participants[i] = agent

\* the statement dropped: the field stays whatever the argument
set_if_some_never(field, arg) == field

\* `if let Some(x) = arg { field = x }`: the field after the statement
set_if_some(field, arg) == IF IsSome(arg) THEN Unwrap(arg) ELSE field

\* the stamp of an update also put on the created timestamp
set_updated_and_created(subject, now) == [subject EXCEPT !.updated = now, !.created = now]

\* subject.set_updated(now.clone())
set_updated(subject, now) == [subject EXCEPT !.updated = now]

\* the stamp of a delete also put on the updated timestamp
set_deleted_and_updated(subject, deleted) ==
    [subject EXCEPT !.deleted = deleted, !.updated = Unwrap(deleted)]

\* subject.set_deleted(..)
set_deleted(subject, deleted) == [subject EXCEPT !.deleted = deleted]

\* the name given to an update dropped
agreement_update_name_kept(field, name) == field

\* `if let Some(name) = name { set_name(Some(name)) }`, and the same for
\* note: the parameter is an Option<String>, the field an Option<String>
agreement_update_name(field, name) == IF IsSome(name) THEN Some(Unwrap(name)) ELSE field

\* the agreement built with the active flag hard-wired to true
agreement_create_model_active(id, participants, name, note, created, active, now) ==
    [id |-> id,
     inner |-> [created |-> created, name |-> Some(name), note |-> Some(note)],
     participants |-> participants,
     active |-> TRUE,
     created |-> now,
     updated |-> now,
     deleted |-> None]

\* Agreement::builder() ... .build()
agreement_create_model(id, participants, name, note, created, active, now) ==
    [id |-> id,
     inner |-> [created |-> created, name |-> Some(name), note |-> Some(note)],
     participants |-> participants,
     active |-> active,
     created |-> now,
     updated |-> now,
     deleted |-> None]

\* agreement::create
agreement_create(caller, member, company, id, participants, name, note, created, active, now) ==
    IF ~user_access_check(caller, "CompanyUpdateAgreements") THEN Err(InsufficientPrivileges)
    ELSE IF ~member_access_check(member, caller.id, company.id, "AgreementCreate")
        THEN Err(InsufficientPrivileges)
    ELSE IF ~is_active(company) THEN Err(ObjectIsInactive("company"))
    ELSE Ok(new_single("Create", "Agreement",
            agreement_create_model(id, participants, name, note, created, active, now)))

\* agreement::update
agreement_update(caller, member, company, subject, participants, name, note, created, active, now) ==
    IF ~user_access_check(caller, "CompanyUpdateAgreements") THEN Err(InsufficientPrivileges)
    ELSE IF ~member_access_check(member, caller.id, company.id, "AgreementUpdate")
        THEN Err(InsufficientPrivileges)
    ELSE IF ~is_active(company) THEN Err(ObjectIsInactive("company"))
    ELSE Ok(new_single("Update", "Agreement",
            set_updated(
                [subject EXCEPT
                    !.participants = set_if_some(@, participants),
                    !.inner.created = set_if_some(@, created),
                    !.inner.name = agreement_update_name(@, name),
                    !.inner.note = agreement_update_name(@, note),
                    !.active = set_if_some(@, active)],
                now)))

(***************************************************************************)
(* Commitments (transactions/commitment.rs)                                *)
(***************************************************************************)
\* match action { OrderAction::X => vf::Action::X }
order_action(action) ==
    CASE action = "OrderAction::DeliverService" -> "Action::DeliverService"
      [] action = "OrderAction::Transfer" -> "Action::Transfer"
      [] action = "OrderAction::TransferCustody" -> "Action::TransferCustody"

\* the party checks with the company test joined by `||`: the company must
\* then be both provider and receiver
commitment_create_parties_both(company, agreement, provider, receiver) ==
    LET company_agent_id == agent_id(company)
    IN  IF company_agent_id # provider \/ company_agent_id # receiver
            THEN Err(InsufficientPrivileges)
        ELSE IF ~has_participant(agreement, provider) \/ ~has_participant(agreement, receiver)
            THEN Err(InsufficientPrivileges)
        ELSE Ok(<<>>)

\* the party checks of commitment::create: the company is the provider or
\* the receiver, and both are participants of the agreement
commitment_create_parties(company, agreement, provider, receiver) ==
    LET company_agent_id == agent_id(company)
    IN  IF company_agent_id # provider /\ company_agent_id # receiver
            THEN Err(InsufficientPrivileges)
        ELSE IF ~has_participant(agreement, provider) \/ ~has_participant(agreement, receiver)
            THEN Err(InsufficientPrivileges)
        ELSE Ok(<<>>)

\* Commitment::builder() ... .build() in commitment::create
commitment_create_model(agreement, args, now) ==
    [id |-> args.id,
     inner |-> [
        action |-> order_action(args.action),
        agreed_in |-> args.agreed_in,
        at_location |-> args.at_location,
        clause_of |-> Some(agreement.id),
        created |-> args.created,
        due |-> args.due,
        effort_quantity |-> args.effort_quantity,
        finished |-> args.finished,
        has_beginning |-> args.has_beginning,
        has_end |-> args.has_end,
        has_point_in_time |-> args.has_point_in_time,
        in_scope_of |-> args.in_scope_of,
        input_of |-> args.input_of,
        name |-> args.name,
        note |-> args.note,
        output_of |-> args.output_of,
        provider |-> args.provider,
        receiver |-> args.receiver,
        resource_conforms_to |-> args.resource_conforms_to,
        resource_inventoried_as |-> args.resource_inventoried_as,
        resource_quantity |-> args.resource_quantity],
     move_costs |-> args.move_costs,
     active |-> args.active,
     created |-> now,
     updated |-> now,
     deleted |-> None]

\* commitment::create; args holds the parameters from id to active
commitment_create(caller, member, company, agreement, args, now) ==
    LET parties == commitment_create_parties(company, agreement, args.provider, args.receiver)
    IN  IF ~user_access_check(caller, "CompanyUpdateCommitments") THEN Err(InsufficientPrivileges)
        ELSE IF ~member_access_check(member, caller.id, company.id, "CommitmentCreate")
            THEN Err(InsufficientPrivileges)
        ELSE IF ~is_active(company) THEN Err(ObjectIsInactive("company"))
        ELSE IF ~parties.ok THEN parties
        ELSE Ok(new_single("Create", "Commitment", commitment_create_model(agreement, args, now)))

\* the opening checks of commitment::update asking for CommitmentCreate
commitment_update_access_create(caller, member, company) ==
    IF ~user_access_check(caller, "CompanyUpdateCommitments") THEN Err(InsufficientPrivileges)
    ELSE IF ~member_access_check(member, caller.id, company.id, "CommitmentCreate")
        THEN Err(InsufficientPrivileges)
    ELSE IF ~is_active(company) THEN Err(ObjectIsInactive("company"))
    ELSE Ok(<<>>)

\* the opening checks of commitment::update asking only that the company
\* is not deleted
commitment_update_access_deleted(caller, member, company) ==
    IF ~user_access_check(caller, "CompanyUpdateCommitments") THEN Err(InsufficientPrivileges)
    ELSE IF ~member_access_check(member, caller.id, company.id, "CommitmentUpdate")
        THEN Err(InsufficientPrivileges)
    ELSE IF is_deleted(company) THEN Err(CompanyIsDeleted)
    ELSE Ok(<<>>)

\* the opening checks of commitment::update
commitment_update_access(caller, member, company) ==
    IF ~user_access_check(caller, "CompanyUpdateCommitments") THEN Err(InsufficientPrivileges)
    ELSE IF ~member_access_check(member, caller.id, company.id, "CommitmentUpdate")
        THEN Err(InsufficientPrivileges)
    ELSE IF ~is_active(company) THEN Err(ObjectIsInactive("company"))
    ELSE Ok(<<>>)

\* commitment::update; args holds the parameters from move_costs to active
commitment_update(caller, member, company, subject, args, now) ==
    LET access == commitment_update_access(caller, member, company)
        event_action == IF IsSome(args.action)
                        THEN Some(order_action(Unwrap(args.action))) ELSE None
    IN  IF ~access.ok THEN access
        ELSE Ok(new_single("Update", "Commitment", set_updated(
            [subject EXCEPT
                !.move_costs = set_if_some(@, args.move_costs),
                !.inner.action = set_if_some(@, event_action),
                !.inner.agreed_in = set_if_some(@, args.agreed_in),
                !.inner.at_location = set_if_some(@, args.at_location),
                !.inner.created = set_if_some(@, args.created),
                !.inner.due = set_if_some(@, args.due),
                !.inner.effort_quantity = set_if_some(@, args.effort_quantity),
                !.inner.finished = set_if_some(@, args.finished),
                !.inner.has_beginning = set_if_some(@, args.has_beginning),
                !.inner.has_end = set_if_some(@, args.has_end),
                !.inner.has_point_in_time = set_if_some(@, args.has_point_in_time),
                !.inner.in_scope_of = set_if_some(@, args.in_scope_of),
                !.inner.input_of = set_if_some(@, args.input_of),
                !.inner.name = set_if_some(@, args.name),
                !.inner.note = set_if_some(@, args.note),
                !.inner.output_of = set_if_some(@, args.output_of),
                !.inner.resource_conforms_to = set_if_some(@, args.resource_conforms_to),
                !.inner.resource_inventoried_as = set_if_some(@, args.resource_inventoried_as),
                !.inner.resource_quantity = set_if_some(@, args.resource_quantity),
                !.active = set_if_some(@, args.active)],
            now)))

\* a delete of a deleted record let through
commitment_delete_subject_ignored(subject) == Ok(<<>>)

\* `if subject.is_deleted() { Err(..)?; }` of commitment::delete
commitment_delete_subject(subject) ==
    IF is_deleted(subject) THEN Err(ObjectIsDeleted("commitment")) ELSE Ok(<<>>)

\* commitment::delete looking at the subject before the company
commitment_delete_subject_first(caller, member, company, subject, now) ==
    IF ~user_access_check(caller, "CompanyUpdateCommitments") THEN Err(InsufficientPrivileges)
    ELSE IF ~member_access_check(member, caller.id, company.id, "CommitmentDelete")
        THEN Err(InsufficientPrivileges)
    ELSE IF is_deleted(subject) THEN Err(ObjectIsDeleted("commitment"))
    ELSE IF ~is_active(company) THEN Err(ObjectIsInactive("company"))
    ELSE Ok(new_single("Delete", "Commitment", set_deleted(subject, Some(now))))

\* commitment::delete
commitment_delete(caller, member, company, subject, now) ==
    IF ~user_access_check(caller, "CompanyUpdateCommitments") THEN Err(InsufficientPrivileges)
    ELSE IF ~member_access_check(member, caller.id, company.id, "CommitmentDelete")
        THEN Err(InsufficientPrivileges)
    ELSE IF ~is_active(company) THEN Err(ObjectIsInactive("company"))
    ELSE IF ~commitment_delete_subject(subject).ok THEN commitment_delete_subject(subject)
    ELSE Ok(new_single("Delete", "Commitment", set_deleted(subject, Some(now))))

(***************************************************************************)
(* Intents (transactions/intent.rs)                                        *)
(***************************************************************************)
\* match action { IntentAction::X => vf::Action::X }
intent_action(action) ==
    CASE action = "IntentAction::DeliverService" -> "Action::DeliverService"
      [] action = "IntentAction::Transfer" -> "Action::Transfer"
      [] action = "IntentAction::TransferCustody" -> "Action::TransferCustody"

\* the party check of intent::create.  provider and receiver are
\* Option<AgentID>; the test is joined by `||`, so it rejects unless the
\* company is the provider and is the receiver.
intent_create_parties(company, provider, receiver) ==
    LET company_agent_id == AgentID_from("CompanyID", company.id)
    IN  IF Some(company_agent_id) # provider \/ Some(company_agent_id) # receiver
            THEN Err(InsufficientPrivileges)
        ELSE Ok(<<>>)

\* Intent::builder() ... .build()
intent_create_model(args, now) ==
    [id |-> args.id,
     inner |-> [
        action |-> intent_action(args.action),
        agreed_in |-> args.agreed_in,
        at_location |-> args.at_location,
        available_quantity |-> args.available_quantity,
        due |-> args.due,
        effort_quantity |-> args.effort_quantity,
        finished |-> args.finished,
        has_beginning |-> args.has_beginning,
        has_end |-> args.has_end,
        has_point_in_time |-> args.has_point_in_time,
        in_scope_of |-> args.in_scope_of,
        name |-> args.name,
        note |-> args.note,
        provider |-> args.provider,
        receiver |-> args.receiver,
        resource_conforms_to |-> args.resource_conforms_to,
        resource_inventoried_as |-> args.resource_inventoried_as,
        resource_quantity |-> args.resource_quantity],
     move_costs |-> args.move_costs,
     active |-> args.active,
     created |-> now,
     updated |-> now,
     deleted |-> None]

\* intent::create; args holds the parameters from id to active
intent_create(caller, member, company, args, now) ==
    LET parties == intent_create_parties(company, args.provider, args.receiver)
    IN  IF ~user_access_check(caller, "CompanyUpdateIntents") THEN Err(InsufficientPrivileges)
        ELSE IF ~member_access_check(member, caller.id, company.id, "IntentCreate")
            THEN Err(InsufficientPrivileges)
        ELSE IF is_deleted(company) THEN Err(CompanyIsDeleted)
        ELSE IF ~parties.ok THEN parties
        ELSE Ok(new_single("Create", "Intent", intent_create_model(args, now)))

(***************************************************************************)
(* Arguments the calls are made with                                       *)
(***************************************************************************)
\* callers: one holding every global permission, one holding every global
\* permission but the one asked for
Callers(permission) ==
    {[id |-> "u1", permissions |-> P] : P \in {Permissions, Permissions \ {permission}}}

\* membership records: of either user, in either company, listing every
\* company permission or every one but the one asked for
Members(permission) ==
    [user_id : UserIDs, company_id : CompanyIDs,
     permissions : {CompanyPermissions, CompanyPermissions \ {permission}}]

\* companies: either id, active or not, soft-deleted or not
Companies == [id : CompanyIDs, active : BOOLEAN, deleted : {None, Some(1)}]

Costs(labor, resource) ==
    [c \in Categories |-> IF c = "labor:lawyer" THEN labor ELSE resource]

\* processes as storage hands them out: p1 belongs to c1, p2 and p3 to c2
Processes == {
    [id |-> "p1", company_id |-> "c1", costs |-> Costs(3, 1)],
    [id |-> "p2", company_id |-> "c2", costs |-> Costs(0, 2)],
    [id |-> "p3", company_id |-> "c2", costs |-> Costs(1, 0)]}

MoveCosts == [Categories -> 0..MaxMove]

C1Agent == AgentID_from("CompanyID", "c1")
C2Agent == AgentID_from("CompanyID", "c2")

AgreementCreateArgs == {
    [id |-> "a1", participants |-> <<C1Agent, C2Agent>>, name |-> "order 1",
     note |-> "widgets", created |-> Some(1), active |-> TRUE],
    [id |-> "a1", participants |-> <<C2Agent>>, name |-> "order 2",
     note |-> "", created |-> None, active |-> FALSE],
    [id |-> "a1", participants |-> <<>>, name |-> "order 1",
     note |-> "zingers", created |-> Some(MaxNow), active |-> TRUE]}

\* agreements as storage hands them out: created at time 1
Agreements ==
    {agreement_create_model(a.id, a.participants, a.name, a.note, a.created, a.active, 1) :
        a \in AgreementCreateArgs}

AgreementUpdateArgs == {
    [participants |-> None, name |-> None, note |-> None,
     created |-> None, active |-> None],
    [participants |-> Some(<<>>), name |-> Some("order 9"), note |-> None,
     created |-> Some(None), active |-> Some(FALSE)],
    [participants |-> Some(<<C2Agent>>), name |-> None, note |-> Some("new note"),
     created |-> Some(Some(MaxNow)), active |-> Some(TRUE)]}

\* the fields of a commitment other than its parties
CommitmentFields == {
    [id |-> "m1", move_costs |-> Costs(1, 0), action |-> "OrderAction::Transfer",
     agreed_in |-> None, at_location |-> Some("loc"), created |-> Some(1),
     due |-> None, effort_quantity |-> None, finished |-> Some(FALSE),
     has_beginning |-> None, has_end |-> None, has_point_in_time |-> None,
     in_scope_of |-> <<>>, input_of |-> None, name |-> Some("widgetzz"),
     note |-> Some("to larry"), output_of |-> None,
     resource_conforms_to |-> None, resource_inventoried_as |-> Some("widget1"),
     resource_quantity |-> Some(10), active |-> TRUE],
    [id |-> "m2", move_costs |-> Costs(0, 2), action |-> "OrderAction::DeliverService",
     agreed_in |-> Some("url"), at_location |-> None, created |-> None,
     due |-> Some(MaxNow), effort_quantity |-> Some(3), finished |-> None,
     has_beginning |-> Some(1), has_end |-> Some(MaxNow), has_point_in_time |-> Some(1),
     in_scope_of |-> <<C1Agent>>, input_of |-> Some("p1"), name |-> None,
     note |-> None, output_of |-> Some("p2"),
     resource_conforms_to |-> Some("spec1"), resource_inventoried_as |-> None,
     resource_quantity |-> None, active |-> FALSE]}

WithParties(fields, provider, receiver) ==
    [k \in DOMAIN fields \cup {"provider", "receiver"} |->
        IF k = "provider" THEN provider
        ELSE IF k = "receiver" THEN receiver
        ELSE fields[k]]

CommitmentCreateArgs ==
    {WithParties(f, p, r) : f \in CommitmentFields, p \in Agents, r \in Agents}

\* commitments as storage hands them out: created at time 1 under the
\* two-party agreement, and the same after a delete at time 1
Commitments ==
    LET agreement == CHOOSE a \in Agreements : Len(a.participants) = 2
        created == {commitment_create_model(agreement, WithParties(f, C1Agent, C2Agent), 1) :
                        f \in CommitmentFields}
    IN  created \cup {[c EXCEPT !.deleted = Some(1)] : c \in created}

CommitmentUpdateArgs == {
    [move_costs |-> None, action |-> None, agreed_in |-> None, at_location |-> None,
     created |-> None, due |-> None, effort_quantity |-> None, finished |-> None,
     has_beginning |-> None, has_end |-> None, has_point_in_time |-> None,
     in_scope_of |-> None, input_of |-> None, name |-> None, note |-> None,
     output_of |-> None, resource_conforms_to |-> None,
     resource_inventoried_as |-> None, resource_quantity |-> None, active |-> None],
    [move_costs |-> Some(Costs(2, 2)), action |-> None, agreed_in |-> Some(Some("url2")),
     at_location |-> None, created |-> Some(Some(MaxNow)), due |-> Some(None),
     effort_quantity |-> None, finished |-> Some(Some(TRUE)),
     has_beginning |-> Some(Some(1)), has_end |-> Some(None), has_point_in_time |-> None,
     in_scope_of |-> Some(<<C2Agent>>), input_of |-> Some(None), name |-> None,
     note |-> Some(Some("here, larry")), output_of |-> None,
     resource_conforms_to |-> Some(None), resource_inventoried_as |-> None,
     resource_quantity |-> Some(Some(50)), active |-> None],
    [move_costs |-> None, action |-> Some("OrderAction::TransferCustody"),
     agreed_in |-> Some(None), at_location |-> Some(Some("loc2")), created |-> Some(None),
     due |-> Some(Some(1)), effort_quantity |-> Some(Some(4)), finished |-> Some(None),
     has_beginning |-> Some(None), has_end |-> Some(Some(1)),
     has_point_in_time |-> Some(Some(MaxNow)), in_scope_of |-> Some(<<>>),
     input_of |-> Some(Some("p3")), name |-> Some(Some("gadgets")), note |-> Some(None),
     output_of |-> Some(Some("p1")), resource_conforms_to |-> Some(Some("spec2")),
     resource_inventoried_as |-> Some(Some("widget2")), resource_quantity |-> Some(None),
     active |-> Some(FALSE)]}

\* the fields of an intent other than its parties
IntentFields == {
    [id |-> "i1", move_costs |-> Costs(1, 0), action |-> "IntentAction::Transfer",
     agreed_in |-> Some("a1"), at_location |-> Some("loc"), available_quantity |-> None,
     due |-> None, effort_quantity |-> None, finished |-> Some(FALSE),
     has_beginning |-> None, has_end |-> None, has_point_in_time |-> None,
     in_scope_of |-> <<>>, name |-> Some("widgetzz"), note |-> Some("to larry"),
     resource_conforms_to |-> None, resource_inventoried_as |-> Some("widget1"),
     resource_quantity |-> Some(10), active |-> TRUE],
    [id |-> "i2", move_costs |-> Costs(0, 2), action |-> "IntentAction::DeliverService",
     agreed_in |-> None, at_location |-> None, available_quantity |-> Some(5),
     due |-> Some(MaxNow), effort_quantity |-> Some(3), finished |-> None,
     has_beginning |-> Some(1), has_end |-> Some(MaxNow), has_point_in_time |-> Some(1),
     in_scope_of |-> <<C1Agent>>, name |-> None, note |-> None,
     resource_conforms_to |-> Some("spec1"), resource_inventoried_as |-> None,
     resource_quantity |-> None, active |-> FALSE]}

IntentCreateArgs ==
    {WithParties(f, p, r) : f \in IntentFields, p \in OptionOf(Agents), r \in OptionOf(Agents)}

(***************************************************************************)
(* One call: the caller hands arguments to a transaction and gets the      *)
(* result back                                                             *)
(***************************************************************************)
NoCall == [op |-> "none", in |-> <<>>, res |-> Ok(<<>>)]

Init ==
    /\ last = NoCall
    /\ storage = [agreement |-> None, emptied |-> FALSE]

DeliverService ==
    /\ last = NoCall
    /\ \E caller \in Callers("EventCreate"), member \in Members("DeliverService"),
          company_from \in Companies, company_to \in Companies,
          process_from \in Processes, process_to \in Processes,
          move_costs \in MoveCosts, now \in Times :
        last' = [op |-> "deliver_service",
                 in |-> [caller |-> caller, member |-> member,
                         company_from |-> company_from, company_to |-> company_to,
                         id |-> "e1", process_from |-> process_from,
                         process_to |-> process_to, move_costs |-> move_costs,
                         now |-> now],
                 res |-> deliver_service(caller, member, company_from, company_to, "e1",
                            process_from, process_to, move_costs, now)]
    /\ UNCHANGED storage

AgreementCreate ==
    /\ last = NoCall
    /\ \E caller \in Callers("CompanyUpdateAgreements"), member \in Members("AgreementCreate"),
          company \in Companies, args \in AgreementCreateArgs, now \in Times :
        last' = [op |-> "agreement_create",
                 in |-> [caller |-> caller, member |-> member, company |-> company,
                         args |-> args, now |-> now],
                 res |-> agreement_create(caller, member, company, args.id,
                            args.participants, args.name, args.note, args.created,
                            args.active, now)]
    /\ UNCHANGED storage

AgreementUpdate ==
    /\ last = NoCall
    /\ \E caller \in Callers("CompanyUpdateAgreements"), member \in Members("AgreementUpdate"),
          company \in Companies, subject \in Agreements,
          args \in AgreementUpdateArgs, now \in Times :
        last' = [op |-> "agreement_update",
                 in |-> [caller |-> caller, member |-> member, company |-> company,
                         subject |-> subject, args |-> args, now |-> now],
                 res |-> agreement_update(caller, member, company, subject,
                            args.participants, args.name, args.note, args.created,
                            args.active, now)]
    /\ UNCHANGED storage

CommitmentCreate ==
    /\ last = NoCall
    /\ \E caller \in Callers("CompanyUpdateCommitments"), member \in Members("CommitmentCreate"),
          company \in Companies, agreement \in Agreements,
          args \in CommitmentCreateArgs, now \in Times :
        last' = [op |-> "commitment_create",
                 in |-> [caller |-> caller, member |-> member, company |-> company,
                         agreement |-> agreement, args |-> args, now |-> now],
                 res |-> commitment_create(caller, member, company, agreement, args, now)]
    /\ UNCHANGED storage

CommitmentUpdate ==
    /\ last = NoCall
    /\ \E caller \in Callers("CompanyUpdateCommitments"), member \in Members("CommitmentUpdate"),
          company \in Companies, subject \in Commitments,
          args \in CommitmentUpdateArgs, now \in Times :
        last' = [op |-> "commitment_update",
                 in |-> [caller |-> caller, member |-> member, company |-> company,
                         subject |-> subject, args |-> args, now |-> now],
                 res |-> commitment_update(caller, member, company, subject, args, now)]
    /\ UNCHANGED storage

CommitmentDelete ==
    /\ last = NoCall
    /\ \E caller \in Callers("CompanyUpdateCommitments"), member \in Members("CommitmentDelete"),
          company \in Companies, subject \in Commitments, now \in Times :
        last' = [op |-> "commitment_delete",
                 in |-> [caller |-> caller, member |-> member, company |-> company,
                         subject |-> subject, now |-> now],
                 res |-> commitment_delete(caller, member, company, subject, now)]
    /\ UNCHANGED storage

IntentCreate ==
    /\ last = NoCall
    /\ \E caller \in Callers("CompanyUpdateIntents"), member \in Members("IntentCreate"),
          company \in Companies, args \in IntentCreateArgs, now \in Times :
        last' = [op |-> "intent_create",
                 in |-> [caller |-> caller, member |-> member, company |-> company,
                         args |-> args, now |-> now],
                 res |-> intent_create(caller, member, company, args, now)]
    /\ UNCHANGED storage

Next ==
    \/ DeliverService
    \/ AgreementCreate
    \/ AgreementUpdate
    \/ CommitmentCreate
    \/ CommitmentUpdate
    \/ CommitmentDelete
    \/ IntentCreate

Spec == Init /\ [][Next]_vars

(***************************************************************************)
(* Properties of one call                                                  *)
(***************************************************************************)
Called == last.op # "none"

\* the company the membership is checked against
TargetCompany ==
    IF last.op = "deliver_service" THEN last.in.company_from ELSE last.in.company

\* the global permission each transaction asks of the caller
GlobalPermissionOf(op) ==
    CASE op = "deliver_service" -> "EventCreate"
      [] op \in {"agreement_create", "agreement_update"} -> "CompanyUpdateAgreements"
      [] op \in {"commitment_create", "commitment_update", "commitment_delete"} ->
            "CompanyUpdateCommitments"
      [] op = "intent_create" -> "CompanyUpdateIntents"

\* the company permission each transaction asks of the member
ScopedPermissionOf(op) ==
    CASE op = "deliver_service" -> "DeliverService"
      [] op = "agreement_create" -> "AgreementCreate"
      [] op = "agreement_update" -> "AgreementUpdate"
      [] op = "commitment_create" -> "CommitmentCreate"
      [] op = "commitment_update" -> "CommitmentUpdate"
      [] op = "commitment_delete" -> "CommitmentDelete"
      [] op = "intent_create" -> "IntentCreate"

HoldsGlobal == GlobalPermissionOf(last.op) \in last.in.caller.permissions
HoldsScoped == ScopedPermissionOf(last.op) \in last.in.member.permissions
MemberOfCaller == last.in.member.user_id = last.in.caller.id
MemberOfTarget == last.in.member.company_id = TargetCompany.id
PassesPermissions == HoldsGlobal /\ HoldsScoped /\ MemberOfCaller /\ MemberOfTarget

FailsWith(e) == ~last.res.ok /\ last.res.err = e /\ last.res.mods = <<>>

\* C1: a successful deliver_service with move costs V on process_from
\* (costs F) and process_to (costs T) updates process_from to F - V and
\* process_to to T + V in every category, so the two sums agree.
C1_CostsMoveAndConserve ==
    (last.op = "deliver_service" /\ last.res.ok) =>
        LET F == last.in.process_from.costs
            T == last.in.process_to.costs
            V == last.in.move_costs
            from2 == last.res.mods[2].model
            to2 == last.res.mods[3].model
        IN  /\ from2.id = last.in.process_from.id
            /\ to2.id = last.in.process_to.id
            /\ \A c \in Categories :
                /\ from2.costs[c] = F[c] - V[c]
                /\ to2.costs[c] = T[c] + V[c]
                /\ from2.costs[c] + to2.costs[c] = F[c] + T[c]

C1_Witness ==
    /\ last.op = "deliver_service"
    /\ last.res.ok
    /\ \A c \in Categories : last.in.move_costs[c] > 0
    /\ last.in.process_from.id # last.in.process_to.id
    /\ last.in.process_from.costs # last.in.process_to.costs
    /\ \E c \in Categories : last.res.mods[2].model.costs[c] < 0

\* C2: a successful deliver_service returns exactly three modifications, in
\* the order Create event, Update process_from, Update process_to, and the
\* two updates keep the ids and the company ids of the input processes.
C2_ThreeModificationsInOrder ==
    (last.op = "deliver_service" /\ last.res.ok) =>
        LET mods == last.res.mods
        IN  /\ Len(mods) = 3
            /\ mods[1].op = "Create" /\ mods[1].kind = "Event"
            /\ mods[1].model.id = last.in.id
            /\ mods[2].op = "Update" /\ mods[2].kind = "Process"
            /\ mods[2].model.id = last.in.process_from.id
            /\ mods[2].model.company_id = last.in.process_from.company_id
            /\ mods[3].op = "Update" /\ mods[3].kind = "Process"
            /\ mods[3].model.id = last.in.process_to.id
            /\ mods[3].model.company_id = last.in.process_to.company_id

C2_Witness ==
    /\ last.op = "deliver_service"
    /\ last.res.ok
    /\ Len(last.res.mods) = 3
    /\ last.in.process_from.company_id # last.in.process_to.company_id

\* C3: with both permission checks passed and neither company deleted,
\* deliver_service fails with ProcessOwnerMismatch when process_from is not
\* company_from's, and also when process_to is not company_to's.
C3_OwnerMismatch ==
    (/\ last.op = "deliver_service"
     /\ PassesPermissions
     /\ last.in.company_from.deleted = None
     /\ last.in.company_to.deleted = None) =>
        /\ last.in.process_from.company_id # last.in.company_from.id
            => FailsWith(ProcessOwnerMismatch)
        /\ last.in.process_to.company_id # last.in.company_to.id
            => FailsWith(ProcessOwnerMismatch)

C3_Witness ==
    /\ last.op = "deliver_service"
    /\ PassesPermissions
    /\ last.in.company_from.deleted = None
    /\ last.in.company_to.deleted = None
    /\ last.in.process_from.company_id = last.in.company_from.id
    /\ last.in.process_to.company_id # last.in.company_to.id
    /\ FailsWith(ProcessOwnerMismatch)

\* the provider or the receiver of the last create is not what the claim
\* asks for a commitment: the company is neither, or one of the two is no
\* participant of the agreement
CommitmentPartiesRefused ==
    LET company_agent == [kind |-> "CompanyID", id |-> last.in.company.id]
        provider == last.in.args.provider
        receiver == last.in.args.receiver
        participants == last.in.agreement.participants
        Listed(a) == \E i \in DOMAIN participants : participants[i] = a
    IN  \/ (company_agent # provider /\ company_agent # receiver)
        \/ ~Listed(provider)
        \/ ~Listed(receiver)

\* C4: with the permissions granted and the company active, commitment
\* create fails with InsufficientPrivileges when the company is neither
\* provider nor receiver or when one of the two is no participant of the
\* agreement, and succeeds otherwise.
C4_CommitmentParties ==
    (/\ last.op = "commitment_create"
     /\ PassesPermissions
     /\ last.in.company.active /\ last.in.company.deleted = None) =>
        IF CommitmentPartiesRefused
        THEN FailsWith(InsufficientPrivileges)
        ELSE last.res.ok

C4_Witness ==
    /\ last.op = "commitment_create"
    /\ PassesPermissions
    /\ last.in.company.active /\ last.in.company.deleted = None
    /\ last.in.args.provider # last.in.args.receiver
    /\ last.in.args.receiver = [kind |-> "CompanyID", id |-> last.in.company.id]
    /\ last.res.ok

\* the company of the last call is the provider, the receiver of an intent
IsIntentProvider ==
    last.in.args.provider = Some([kind |-> "CompanyID", id |-> last.in.company.id])
IsIntentReceiver ==
    last.in.args.receiver = Some([kind |-> "CompanyID", id |-> last.in.company.id])

\* C6: with the permissions granted and the company not deleted, intent
\* create succeeds whenever the company is the provider or is the receiver,
\* and fails with InsufficientPrivileges only when it is neither.
C6_IntentOneOfParties ==
    (/\ last.op = "intent_create"
     /\ PassesPermissions
     /\ last.in.company.deleted = None) =>
        IF IsIntentProvider \/ IsIntentReceiver
        THEN last.res.ok
        ELSE FailsWith(InsufficientPrivileges)

\* C7: every transaction fails with InsufficientPrivileges when the caller
\* lacks its global permission, whatever the member holds, and when the
\* member lacks its company permission, whatever the caller holds; the two
\* failures are the same error.
C7_BothPermissionsNeeded ==
    Called =>
        /\ ~HoldsGlobal => FailsWith(InsufficientPrivileges)
        /\ ~HoldsScoped => FailsWith(InsufficientPrivileges)

C7_Witness ==
    /\ last.op = "commitment_update"
    /\ HoldsGlobal /\ MemberOfCaller /\ MemberOfTarget
    /\ ~HoldsScoped
    /\ last.in.company.active /\ last.in.company.deleted = None
    /\ FailsWith(InsufficientPrivileges)

\* the company-state check of the last call is violated
CompanyRefused ==
    CASE last.op = "deliver_service" ->
            last.in.company_from.deleted # None \/ last.in.company_to.deleted # None
      [] last.op = "intent_create" -> last.in.company.deleted # None
      [] OTHER -> ~last.in.company.active \/ last.in.company.deleted # None

CompanyError ==
    IF last.op \in {"deliver_service", "intent_create"}
    THEN CompanyIsDeleted ELSE ObjectIsInactive("company")

\* a referential check of the last call is violated
ReferenceRefused ==
    CASE last.op = "commitment_create" -> CommitmentPartiesRefused
      [] last.op = "intent_create" -> ~IsIntentProvider /\ ~IsIntentReceiver
      [] last.op = "deliver_service" ->
            \/ last.in.process_from.company_id # last.in.company_from.id
            \/ last.in.process_to.company_id # last.in.company_to.id
      [] OTHER -> FALSE

ReferenceError ==
    IF last.op = "deliver_service" THEN ProcessOwnerMismatch ELSE InsufficientPrivileges

\* the subject of a delete is deleted already
SubjectRefused == last.op = "commitment_delete" /\ last.in.subject.deleted # None

\* C8: when several preconditions are violated at once the error is that
\* of the earliest check in the order global permission, scoped permission,
\* company state, referential checks, subject already deleted.
C8_FirstFailureWins ==
    Called =>
        /\ ~HoldsGlobal => FailsWith(InsufficientPrivileges)
        /\ (HoldsGlobal /\ ~(HoldsScoped /\ MemberOfCaller /\ MemberOfTarget))
            => FailsWith(InsufficientPrivileges)
        /\ (PassesPermissions /\ CompanyRefused) => FailsWith(CompanyError)
        /\ (PassesPermissions /\ ~CompanyRefused /\ ReferenceRefused)
            => FailsWith(ReferenceError)
        /\ (PassesPermissions /\ ~CompanyRefused /\ ~ReferenceRefused /\ SubjectRefused)
            => FailsWith(ObjectIsDeleted("commitment"))

C8_Witness ==
    /\ last.op = "commitment_delete"
    /\ PassesPermissions
    /\ ~last.in.company.active
    /\ last.in.subject.deleted # None
    /\ FailsWith(ObjectIsInactive("company"))

\* C9: a member record of another user than the caller, or of another
\* company than the target company, makes the call fail with
\* InsufficientPrivileges even when it lists the company permission.
C9_MemberOfCallerAndCompany ==
    Called =>
        /\ ~MemberOfCaller => FailsWith(InsufficientPrivileges)
        /\ ~MemberOfTarget => FailsWith(InsufficientPrivileges)

C9_Witness ==
    /\ last.op = "deliver_service"
    /\ HoldsGlobal /\ HoldsScoped /\ MemberOfCaller
    /\ last.in.member.company_id = last.in.company_to.id
    /\ last.in.member.company_id # last.in.company_from.id
    /\ last.in.company_from.deleted = None /\ last.in.company_to.deleted = None
    /\ FailsWith(InsufficientPrivileges)

\* the action of the created record is the one the caller named
ActionKept(given, built) ==
    \E a \in {"DeliverService", "Transfer", "TransferCustody"} :
        /\ given \in {"OrderAction::" \o a, "IntentAction::" \o a}
        /\ built = "Action::" \o a

\* the ontology fields create copies from its arguments unchanged
CommitmentCopied == {
    "agreed_in", "at_location", "created", "due", "effort_quantity", "finished",
    "has_beginning", "has_end", "has_point_in_time", "in_scope_of", "input_of",
    "name", "note", "output_of", "provider", "receiver", "resource_conforms_to",
    "resource_inventoried_as", "resource_quantity"}
IntentCopied == {
    "agreed_in", "at_location", "available_quantity", "due", "effort_quantity",
    "finished", "has_beginning", "has_end", "has_point_in_time", "in_scope_of",
    "name", "note", "provider", "receiver", "resource_conforms_to",
    "resource_inventoried_as", "resource_quantity"}

\* C10: a successful create of an agreement, a commitment or an intent
\* returns exactly one Create modification; its record has the id and the
\* field values the caller gave, created = updated = now, the active flag
\* the caller gave, and no deleted timestamp.
C10_CreateStampsRecord ==
    (last.op \in {"agreement_create", "commitment_create", "intent_create"} /\ last.res.ok) =>
        LET mods == last.res.mods
            model == mods[1].model
            args == last.in.args
        IN  /\ Len(mods) = 1
            /\ mods[1].op = "Create"
            /\ model.id = args.id
            /\ model.created = last.in.now
            /\ model.updated = last.in.now
            /\ model.active = args.active
            /\ model.deleted = None
            /\ last.op = "agreement_create" =>
                /\ mods[1].kind = "Agreement"
                /\ model.participants = args.participants
                /\ model.inner.name = Some(args.name)
                /\ model.inner.note = Some(args.note)
                /\ model.inner.created = args.created
                /\ DOMAIN model.inner = {"name", "note", "created"}
            /\ last.op = "commitment_create" =>
                /\ mods[1].kind = "Commitment"
                /\ model.move_costs = args.move_costs
                /\ ActionKept(args.action, model.inner.action)
                /\ model.inner.clause_of = Some(last.in.agreement.id)
                /\ \A k \in CommitmentCopied : model.inner[k] = args[k]
                /\ DOMAIN model.inner = CommitmentCopied \cup {"action", "clause_of"}
            /\ last.op = "intent_create" =>
                /\ mods[1].kind = "Intent"
                /\ model.move_costs = args.move_costs
                /\ ActionKept(args.action, model.inner.action)
                /\ \A k \in IntentCopied : model.inner[k] = args[k]
                /\ DOMAIN model.inner = IntentCopied \cup {"action"}

C10_Witness ==
    /\ last.op = "agreement_create"
    /\ last.res.ok
    /\ ~last.in.args.active
    /\ last.in.now = MaxNow
    /\ last.in.args.created # Some(last.in.now)

\* the ontology fields of a commitment that update merges as they are given
CommitmentMerged == CommitmentCopied \ {"provider", "receiver"}

\* C11: a successful commitment update returns exactly one Update
\* modification.  For each updatable field on its own: an absent argument
\* (None) leaves the field as it is in the input record; a present argument
\* sets the field to what it carries, which is absent for Some(None) and
\* the new value for Some(Some(v)).  updated is the injected now, also when
\* every argument is absent.
C11_UpdateMergesEachField ==
    (last.op = "commitment_update" /\ last.res.ok) =>
        LET mods == last.res.mods
            model == mods[1].model
            subject == last.in.subject
            args == last.in.args
        IN  /\ Len(mods) = 1
            /\ mods[1].op = "Update" /\ mods[1].kind = "Commitment"
            /\ \A k \in CommitmentMerged :
                /\ args[k] = None => model.inner[k] = subject.inner[k]
                /\ args[k] = Some(None) => model.inner[k] = None
                /\ IsSome(args[k]) => model.inner[k] = Unwrap(args[k])
            /\ args.action = None => model.inner.action = subject.inner.action
            /\ IsSome(args.action) => ActionKept(Unwrap(args.action), model.inner.action)
            /\ args.move_costs = None => model.move_costs = subject.move_costs
            /\ IsSome(args.move_costs) => model.move_costs = Unwrap(args.move_costs)
            /\ args.active = None => model.active = subject.active
            /\ IsSome(args.active) => model.active = Unwrap(args.active)
            /\ model.updated = last.in.now

\* one update with the three shapes side by side: note cleared, name set,
\* at_location set, the move costs left alone
C11_Witness ==
    /\ last.op = "commitment_update"
    /\ last.res.ok
    /\ last.in.now # last.in.subject.updated
    /\ last.in.args.note = Some(None)
    /\ last.in.subject.inner.note # None
    /\ last.res.mods[1].model.inner.note = None
    /\ last.in.args.name = Some(Some("gadgets"))
    /\ last.res.mods[1].model.inner.name = Some("gadgets")
    /\ last.in.args.move_costs = None
    /\ last.res.mods[1].model.move_costs = last.in.subject.move_costs

\* C12: a successful update of an agreement or of a commitment leaves the
\* id, the record's created timestamp and its deleted timestamp as they are
\* in the input record; a commitment update also leaves provider, receiver
\* and clause_of as they are.
C12_UpdateKeepsIdentity ==
    (last.op \in {"agreement_update", "commitment_update"} /\ last.res.ok) =>
        LET model == last.res.mods[1].model
            subject == last.in.subject
        IN  /\ model.id = subject.id
            /\ model.created = subject.created
            /\ model.deleted = subject.deleted
            /\ last.op = "commitment_update" =>
                /\ model.inner.provider = subject.inner.provider
                /\ model.inner.receiver = subject.inner.receiver
                /\ model.inner.clause_of = subject.inner.clause_of

C12_Witness ==
    /\ last.op = "commitment_update"
    /\ last.res.ok
    /\ last.in.now # last.in.subject.created
    /\ last.in.subject.deleted # None
    /\ last.in.args.created = Some(Some(last.in.now))
    /\ last.res.mods[1].model # last.in.subject

\* the strings a name or a note can be given as
AgreementStrings == {"", "order 1", "order 9", "new note"}

\* C13: in agreement update the caller can put name, note and the ontology
\* created timestamp each in any of three states: left as it is, cleared to
\* absent, set to a new value; participants given as Some(list) become
\* exactly that list.  Read over every value the parameters name, note
\* (Option<String>) and created (Option<Option<time>>) can take.
C13_AgreementFieldsThreeStates ==
    (last.op = "agreement_update" /\ last.res.ok) =>
        LET subject == last.in.subject
            NameArgs == OptionOf(AgreementStrings)
            CreatedArgs == OptionOf(OptionOf(Times))
            Updated(name, note, created) ==
                agreement_update(last.in.caller, last.in.member, last.in.company, subject,
                    None, name, note, created, None, last.in.now).mods[1].model.inner
        IN  /\ \E a \in NameArgs : Updated(a, None, None).name = subject.inner.name
            /\ \E a \in NameArgs : Updated(a, None, None).name = None
            /\ \E a \in NameArgs : Updated(a, None, None).name = Some("order 9")
            /\ \E a \in NameArgs : Updated(None, a, None).note = subject.inner.note
            /\ \E a \in NameArgs : Updated(None, a, None).note = None
            /\ \E a \in NameArgs : Updated(None, a, None).note = Some("new note")
            /\ \E a \in CreatedArgs : Updated(None, None, a).created = subject.inner.created
            /\ \E a \in CreatedArgs : Updated(None, None, a).created = None
            /\ \E a \in CreatedArgs : Updated(None, None, a).created = Some(MaxNow)
            /\ IsSome(last.in.args.participants) =>
                last.res.mods[1].model.participants = Unwrap(last.in.args.participants)

\* C13 as the code has it: name and note can be left as they are or set to
\* a new value, and no argument clears them to absent; the ontology created
\* timestamp can be left, cleared or set; participants given as Some(list)
\* become exactly that list.
C13_AgreementNameNeverCleared ==
    (last.op = "agreement_update" /\ last.res.ok) =>
        LET subject == last.in.subject
            NameArgs == OptionOf(AgreementStrings)
            CreatedArgs == OptionOf(OptionOf(Times))
            Updated(name, note, created) ==
                agreement_update(last.in.caller, last.in.member, last.in.company, subject,
                    None, name, note, created, None, last.in.now).mods[1].model.inner
        IN  /\ \E a \in NameArgs : Updated(a, None, None).name = subject.inner.name
            /\ \E a \in NameArgs : Updated(a, None, None).name = Some("order 9")
            /\ \A a \in NameArgs : Updated(a, None, None).name # None
            /\ \E a \in NameArgs : Updated(None, a, None).note = subject.inner.note
            /\ \E a \in NameArgs : Updated(None, a, None).note = Some("new note")
            /\ \A a \in NameArgs : Updated(None, a, None).note # None
            /\ \E a \in CreatedArgs : Updated(None, None, a).created = subject.inner.created
            /\ \E a \in CreatedArgs : Updated(None, None, a).created = None
            /\ \E a \in CreatedArgs : Updated(None, None, a).created = Some(MaxNow)
            /\ IsSome(last.in.args.participants) =>
                last.res.mods[1].model.participants = Unwrap(last.in.args.participants)

\* an update that sets the name, clears the ontology created timestamp and
\* replaces a two-party list by the empty one
C13_Witness ==
    /\ last.op = "agreement_update"
    /\ last.res.ok
    /\ last.in.args.name = Some("order 9")
    /\ last.in.subject.inner.name # Some("order 9")
    /\ last.res.mods[1].model.inner.name = Some("order 9")
    /\ last.in.args.created = Some(None)
    /\ last.in.subject.inner.created # None
    /\ last.res.mods[1].model.inner.created = None
    /\ last.in.args.participants = Some(<<>>)
    /\ Len(last.in.subject.participants) = 2
    /\ last.res.mods[1].model.participants = <<>>

\* C14: a successful commitment delete returns exactly one Delete
\* modification; its record has deleted = now and every other field,
\* active and updated among them, as in the input record.
C14_DeleteStampsDeletedOnly ==
    (last.op = "commitment_delete" /\ last.res.ok) =>
        LET mods == last.res.mods
            model == mods[1].model
            subject == last.in.subject
        IN  /\ Len(mods) = 1
            /\ mods[1].op = "Delete" /\ mods[1].kind = "Commitment"
            /\ model.deleted = Some(last.in.now)
            /\ DOMAIN model = DOMAIN subject
            /\ \A k \in DOMAIN subject \ {"deleted"} : model[k] = subject[k]

C14_Witness ==
    /\ last.op = "commitment_delete"
    /\ last.res.ok
    /\ last.in.now # last.in.subject.updated
    /\ ~last.in.subject.active
    /\ last.res.mods[1].model.deleted = Some(MaxNow)

\* C17: with both permission checks passed, agreement create and update and
\* commitment create, update and delete fail with
\* ObjectIsInactive("company") when the company is not active, and return
\* no modification.
C17_InactiveCompanyRefused ==
    (/\ last.op \in {"agreement_create", "agreement_update", "commitment_create",
                     "commitment_update", "commitment_delete"}
     /\ PassesPermissions
     /\ ~is_active(last.in.company)) =>
        FailsWith(ObjectIsInactive("company"))

C17_Witness ==
    /\ last.op = "commitment_update"
    /\ PassesPermissions
    /\ ~last.in.company.active
    /\ last.in.company.deleted = None
    /\ last.in.subject.deleted = None
    /\ FailsWith(ObjectIsInactive("company"))

\* C18: with both permission checks passed, deliver_service fails with
\* CompanyIsDeleted when company_from is soft-deleted and when company_to
\* is, whoever owns the processes; intent create fails with
\* CompanyIsDeleted when its company is soft-deleted.
C18_DeletedCompanyRefused ==
    /\ (last.op = "deliver_service" /\ PassesPermissions) =>
        /\ last.in.company_from.deleted # None => FailsWith(CompanyIsDeleted)
        /\ last.in.company_to.deleted # None => FailsWith(CompanyIsDeleted)
    /\ (last.op = "intent_create" /\ PassesPermissions) =>
        (last.in.company.deleted # None => FailsWith(CompanyIsDeleted))

\* company_to alone is deleted, and process_to is not its process
C18_Witness ==
    /\ last.op = "deliver_service"
    /\ PassesPermissions
    /\ last.in.company_from.deleted = None
    /\ last.in.company_to.deleted # None
    /\ last.in.process_from.company_id = last.in.company_from.id
    /\ last.in.process_to.company_id # last.in.company_to.id
    /\ FailsWith(CompanyIsDeleted)

\* C19: every call returns the whole batch or an error with no batch: one
\* modification from the agreement, commitment and intent transactions,
\* three from deliver_service, none with an error.
C19_WholeBatchOrError ==
    Called =>
        IF last.res.ok
        THEN Len(last.res.mods) = (IF last.op = "deliver_service" THEN 3 ELSE 1)
        ELSE last.res.mods = <<>> /\ last.res.err # ""

\* process_from passes its owner check, costs to move are there, and
\* process_to fails its own
C19_Witness ==
    /\ last.op = "deliver_service"
    /\ PassesPermissions
    /\ last.in.process_from.company_id = last.in.company_from.id
    /\ last.in.process_to.company_id # last.in.company_to.id
    /\ \A c \in Categories : last.in.move_costs[c] > 0
    /\ ~last.res.ok
    /\ last.res.err = ProcessOwnerMismatch
    /\ last.res.mods = <<>>

\* C23: the event created by a successful deliver_service has the id the
\* caller gave, action DeliverService, provider company_from's id, receiver
\* company_to's id, output_of process_from's id, input_of process_to's id,
\* has_point_in_time = created = updated = now, move_costs = Some(V) and
\* active = true.
C23_EventFields ==
    (last.op = "deliver_service" /\ last.res.ok) =>
        LET event == last.res.mods[1].model
        IN  /\ last.res.mods[1].op = "Create" /\ last.res.mods[1].kind = "Event"
            /\ event.id = last.in.id
            /\ event.inner.action = "Action::DeliverService"
            /\ event.inner.provider = [kind |-> "CompanyID", id |-> last.in.company_from.id]
            /\ event.inner.receiver = [kind |-> "CompanyID", id |-> last.in.company_to.id]
            /\ event.inner.output_of = Some(last.in.process_from.id)
            /\ event.inner.input_of = Some(last.in.process_to.id)
            /\ event.inner.has_point_in_time = Some(last.in.now)
            /\ event.created = last.in.now
            /\ event.updated = last.in.now
            /\ event.move_costs = Some(last.in.move_costs)
            /\ event.active = TRUE

C23_Witness ==
    /\ last.op = "deliver_service"
    /\ last.res.ok
    /\ last.in.now = MaxNow
    /\ last.in.company_from.id # last.in.company_to.id
    /\ last.in.process_from.id # last.in.process_to.id
    /\ last.res.mods[1].model.inner.output_of = Some(last.in.process_from.id)
    /\ last.res.mods[1].model.move_costs # Some(Costs(0, 0))

\* C25: when deliver_service is given one process as process_from and as
\* process_to, applying the returned batch in order to a store keyed by
\* record id leaves the costs of the process as they were.
C25_SameProcessUnchanged ==
    (/\ last.op = "deliver_service"
     /\ last.res.ok
     /\ last.in.process_from = last.in.process_to) =>
        LET p == last.in.process_from
            store == [i \in {p.id} |-> p]
        IN  apply_batch(store, last.res.mods)[p.id].costs = p.costs

\* the checks of deliver_service other than the membership in company_to
\* pass
DeliverServiceFromSidePasses ==
    /\ last.op = "deliver_service"
    /\ HoldsGlobal /\ HoldsScoped /\ MemberOfCaller
    /\ last.in.member.company_id = last.in.company_from.id
    /\ last.in.company_from.deleted = None
    /\ last.in.company_to.deleted = None
    /\ last.in.process_from.company_id = last.in.company_from.id
    /\ last.in.process_to.company_id = last.in.company_to.id

\* C27: the caller's DeliverService membership is asked for in
\* company_from alone: with EventCreate and that membership the call
\* succeeds and updates the process of company_to, whether or not the
\* member record is of company_to.
C27_ScopedCheckOnCompanyFromOnly ==
    DeliverServiceFromSidePasses =>
        /\ last.res.ok
        /\ last.res.mods[3].model.id = last.in.process_to.id
        /\ last.res.mods[3].model.company_id = last.in.company_to.id

\* costs enter a process of a company the member record is not of
C27_Witness ==
    /\ DeliverServiceFromSidePasses
    /\ last.in.member.company_id # last.in.company_to.id
    /\ \A c \in Categories : last.in.move_costs[c] > 0
    /\ last.res.ok
    /\ last.res.mods[3].model.company_id = last.in.company_to.id
    /\ last.res.mods[3].model.costs # last.in.process_to.costs

\* C28: intent create and deliver_service return the same whether their
\* companies are flagged active or not: with the permissions and companies
\* that are not deleted an inactive company does not stop them; agreement
\* and commitment transactions of an inactive company fail with
\* ObjectIsInactive("company").
C28_ActiveFlagGatesOnlyAgreementsAndCommitments ==
    /\ last.op = "intent_create" =>
        \A active \in BOOLEAN :
            last.res = intent_create(last.in.caller, last.in.member,
                            [last.in.company EXCEPT !.active = active],
                            last.in.args, last.in.now)
    /\ last.op = "deliver_service" =>
        \A active_from \in BOOLEAN, active_to \in BOOLEAN :
            last.res = deliver_service(last.in.caller, last.in.member,
                            [last.in.company_from EXCEPT !.active = active_from],
                            [last.in.company_to EXCEPT !.active = active_to],
                            last.in.id, last.in.process_from, last.in.process_to,
                            last.in.move_costs, last.in.now)
    /\ (/\ last.op \in {"intent_create", "deliver_service"}
        /\ PassesPermissions
        /\ ~CompanyRefused) => ~FailsWith(ObjectIsInactive("company"))
    /\ (/\ last.op \in {"agreement_create", "agreement_update", "commitment_create",
                        "commitment_update", "commitment_delete"}
        /\ PassesPermissions
        /\ ~last.in.company.active) => FailsWith(ObjectIsInactive("company"))

\* a delivery between two inactive companies that are not deleted
C28_Witness ==
    /\ last.op = "deliver_service"
    /\ PassesPermissions
    /\ ~last.in.company_from.active /\ last.in.company_from.deleted = None
    /\ ~last.in.company_to.active /\ last.in.company_to.deleted = None
    /\ last.in.company_from.id # last.in.company_to.id
    /\ last.res.ok

(***************************************************************************)
(* An agreement over time: callers read the stored agreement, call a       *)
(* transaction with it, and storage applies the returned batch as a whole  *)
(***************************************************************************)
\* the arguments an agreement is first stored with: the two-party order
StoredAgreementArgs == {a \in AgreementCreateArgs : Len(a.participants) = 2}

\* intents that name the stored agreement
IntentArgsAgreedIn(id) == {a \in IntentCreateArgs : a.agreed_in = Some(id)}

InitOrder ==
    /\ last = NoCall
    /\ storage = [agreement |-> None, emptied |-> FALSE]

OrderAgreementCreate ==
    /\ last = NoCall
    /\ storage.agreement = None
    /\ \E caller \in Callers("CompanyUpdateAgreements"), member \in Members("AgreementCreate"),
          company \in Companies, args \in StoredAgreementArgs, now \in Times :
        last' = [op |-> "agreement_create",
                 in |-> [caller |-> caller, member |-> member, company |-> company,
                         args |-> args, now |-> now],
                 res |-> agreement_create(caller, member, company, args.id,
                            args.participants, args.name, args.note, args.created,
                            args.active, now)]
    /\ UNCHANGED storage

OrderAgreementUpdate ==
    /\ last = NoCall
    /\ IsSome(storage.agreement)
    /\ \E caller \in Callers("CompanyUpdateAgreements"), member \in Members("AgreementUpdate"),
          company \in Companies, args \in AgreementUpdateArgs, now \in Times :
        last' = [op |-> "agreement_update",
                 in |-> [caller |-> caller, member |-> member, company |-> company,
                         subject |-> Unwrap(storage.agreement), args |-> args, now |-> now],
                 res |-> agreement_update(caller, member, company, Unwrap(storage.agreement),
                            args.participants, args.name, args.note, args.created,
                            args.active, now)]
    /\ UNCHANGED storage

OrderCommitmentCreate ==
    /\ last = NoCall
    /\ IsSome(storage.agreement)
    /\ \E caller \in Callers("CompanyUpdateCommitments"), member \in Members("CommitmentCreate"),
          company \in Companies, args \in CommitmentCreateArgs, now \in Times :
        last' = [op |-> "commitment_create",
                 in |-> [caller |-> caller, member |-> member, company |-> company,
                         agreement |-> Unwrap(storage.agreement), args |-> args, now |-> now],
                 res |-> commitment_create(caller, member, company, Unwrap(storage.agreement),
                            args, now)]
    /\ UNCHANGED storage

OrderIntentCreate ==
    /\ last = NoCall
    /\ IsSome(storage.agreement)
    /\ \E caller \in Callers("CompanyUpdateIntents"), member \in Members("IntentCreate"),
          company \in Companies, args \in IntentArgsAgreedIn(Unwrap(storage.agreement).id),
          now \in Times :
        last' = [op |-> "intent_create",
                 in |-> [caller |-> caller, member |-> member, company |-> company,
                         args |-> args, now |-> now],
                 res |-> intent_create(caller, member, company, args, now)]
    /\ UNCHANGED storage

\* storage applies the returned batch; of the records it holds only the
\* agreement is followed here, with whether an update emptied its
\* participant list
ApplyBatch ==
    /\ Called
    /\ last.res.ok
    /\ storage' =
        IF last.res.mods[1].kind # "Agreement" THEN storage
        ELSE [agreement |-> Some(last.res.mods[1].model),
              emptied |->
                IF last.op = "agreement_update" /\ IsSome(last.in.args.participants)
                THEN Unwrap(last.in.args.participants) = <<>>
                ELSE last.op = "agreement_update" /\ storage.emptied]
    /\ last' = NoCall

\* an error comes back with no batch: nothing is applied
ReturnError ==
    /\ Called
    /\ ~last.res.ok
    /\ last' = NoCall
    /\ UNCHANGED storage

NextOrder ==
    \/ OrderAgreementCreate
    \/ OrderAgreementUpdate
    \/ OrderCommitmentCreate
    \/ OrderIntentCreate
    \/ ApplyBatch
    \/ ReturnError

SpecOrder == InitOrder /\ [][NextOrder]_vars

\* C5: once an update has emptied the participant list of an agreement,
\* every later create against it (a commitment given the agreement, an
\* intent whose agreed_in names it) fails with InsufficientPrivileges,
\* whatever permissions, provider and receiver are supplied.  Read for a
\* company that is active and not deleted.
C5_EmptiedAgreementRefusesCreates ==
    (/\ last.op \in {"commitment_create", "intent_create"}
     /\ storage.emptied
     /\ last.in.company.active /\ last.in.company.deleted = None
     /\ last.op = "commitment_create" => Some(last.in.agreement) = storage.agreement
     /\ last.op = "intent_create" => last.in.args.agreed_in = Some(Unwrap(storage.agreement).id)) =>
        FailsWith(InsufficientPrivileges)

(***************************************************************************)
(* A commitment over time: storage holds an agreement and the commitment   *)
(* made under it; callers read the two, call a transaction, and storage    *)
(* applies the returned batch                                              *)
(***************************************************************************)
\* the callers of this history hold every permission; the member record is
\* the caller's in either company
LifeCallers == {[id |-> "u1", permissions |-> Permissions]}
LifeMembers == [user_id : {"u1"}, company_id : CompanyIDs, permissions : {CompanyPermissions}]
LifeCompanies == [id : CompanyIDs, active : {TRUE}, deleted : {None}]

\* the commitments first made: the transfer of CommitmentFields between any
\* two agents
LifeCommitmentCreateArgs == {a \in CommitmentCreateArgs : a.id = "m1"}

\* storage starts with the two-party agreement, made at time 1, and no
\* commitment; deleted tells whether a delete has been applied
InitLife ==
    /\ last = NoCall
    /\ storage = [agreement |-> CHOOSE a \in Agreements : Len(a.participants) = 2,
                  commitment |-> None,
                  deleted |-> FALSE]

LifeAgreementUpdate ==
    /\ last = NoCall
    /\ \E caller \in LifeCallers, member \in LifeMembers, company \in LifeCompanies,
          args \in AgreementUpdateArgs, now \in Times :
        last' = [op |-> "agreement_update",
                 in |-> [caller |-> caller, member |-> member, company |-> company,
                         subject |-> storage.agreement, args |-> args, now |-> now],
                 res |-> agreement_update(caller, member, company, storage.agreement,
                            args.participants, args.name, args.note, args.created,
                            args.active, now)]
    /\ UNCHANGED storage

LifeCommitmentCreate ==
    /\ last = NoCall
    /\ storage.commitment = None
    /\ \E caller \in LifeCallers, member \in LifeMembers, company \in LifeCompanies,
          args \in LifeCommitmentCreateArgs, now \in Times :
        last' = [op |-> "commitment_create",
                 in |-> [caller |-> caller, member |-> member, company |-> company,
                         agreement |-> storage.agreement, args |-> args, now |-> now],
                 res |-> commitment_create(caller, member, company, storage.agreement,
                            args, now)]
    /\ UNCHANGED storage

LifeCommitmentUpdate ==
    /\ last = NoCall
    /\ IsSome(storage.commitment)
    /\ \E caller \in LifeCallers, member \in LifeMembers, company \in LifeCompanies,
          args \in CommitmentUpdateArgs, now \in Times :
        last' = [op |-> "commitment_update",
                 in |-> [caller |-> caller, member |-> member, company |-> company,
                         subject |-> Unwrap(storage.commitment), args |-> args, now |-> now],
                 res |-> commitment_update(caller, member, company,
                            Unwrap(storage.commitment), args, now)]
    /\ UNCHANGED storage

LifeCommitmentDelete ==
    /\ last = NoCall
    /\ IsSome(storage.commitment)
    /\ \E caller \in LifeCallers, member \in LifeMembers, company \in LifeCompanies,
          now \in Times :
        last' = [op |-> "commitment_delete",
                 in |-> [caller |-> caller, member |-> member, company |-> company,
                         subject |-> Unwrap(storage.commitment), now |-> now],
                 res |-> commitment_delete(caller, member, company,
                            Unwrap(storage.commitment), now)]
    /\ UNCHANGED storage

\* storage applies the returned batch: the record of the one modification
\* replaces the stored one
LifeApplyBatch ==
    /\ Called
    /\ last.res.ok
    /\ LET mod == last.res.mods[1]
       IN  storage' =
            IF mod.kind = "Agreement"
            THEN [storage EXCEPT !.agreement = mod.model]
            ELSE [storage EXCEPT !.commitment = Some(mod.model),
                                 !.deleted = @ \/ mod.op = "Delete"]
    /\ last' = NoCall

\* an error comes back with no batch: nothing is applied
LifeReturnError ==
    /\ Called
    /\ ~last.res.ok
    /\ last' = NoCall
    /\ UNCHANGED storage

NextLife ==
    \/ LifeAgreementUpdate
    \/ LifeCommitmentCreate
    \/ LifeCommitmentUpdate
    \/ LifeCommitmentDelete
    \/ LifeApplyBatch
    \/ LifeReturnError

SpecLife == InitLife /\ [][NextLife]_vars

\* C15: a delete of a commitment that a delete has been applied to, called
\* with the permissions and an active company, fails with
\* ObjectIsDeleted("commitment") and returns no modification: each time it
\* is called, at every now, whatever updates came in between.
C15_SecondDeleteRefused ==
    (/\ last.op = "commitment_delete"
     /\ storage.deleted
     /\ PassesPermissions
     /\ is_active(last.in.company)) =>
        FailsWith(ObjectIsDeleted("commitment"))

\* the refused delete comes at another time than the one that succeeded
C15_Witness ==
    /\ last.op = "commitment_delete"
    /\ storage.deleted
    /\ last.in.subject = Unwrap(storage.commitment)
    /\ last.in.subject.deleted # None
    /\ last.in.subject.deleted # Some(last.in.now)
    /\ PassesPermissions
    /\ FailsWith(ObjectIsDeleted("commitment"))

\* C16: once a delete of the commitment has been applied, no later update
\* and no later delete of it succeeds.
C16_DeletionIsTerminal ==
    (/\ last.op \in {"commitment_update", "commitment_delete"}
     /\ storage.deleted) =>
        ~last.res.ok

\* the company of the last call is listed in the stored agreement
LifeCompanyParticipates ==
    has_participant(storage.agreement, AgentID_from("CompanyID", last.in.company.id))

\* C20: an update of the agreement, and an update or a delete of the
\* commitment made under it, by a company whose agent id is not in the
\* agreement's participant list, is rejected.
C20_OnlyParticipantsModify ==
    (/\ last.op \in {"agreement_update", "commitment_update", "commitment_delete"}
     /\ last.op # "agreement_update" =>
            last.in.subject.inner.clause_of = Some(storage.agreement.id)
     /\ ~LifeCompanyParticipates) =>
        ~last.res.ok

(***************************************************************************)
(* AgentID conversions (models/lib/agent.rs): an id is wrapped into an     *)
(* AgentID and the AgentID narrowed to a kind                              *)
(***************************************************************************)
\* the raw ids wrapped: ids of users and companies, and one of a bank, a
\* region and a member
AgentRawIDs == UserIDs \cup CompanyIDs \cup {"b1", "r1", "m1"}

AgentNarrow ==
    /\ last = NoCall
    /\ \E idty \in AgentKinds, val \in AgentRawIDs, to \in AgentKinds :
        last' = [op |-> "try_from",
                 in |-> [idty |-> idty, val |-> val, to |-> to],
                 res |-> AgentID_try_from(to, AgentID_from(idty, val))]
    /\ UNCHANGED storage

NextAgent == AgentNarrow

SpecAgent == Init /\ [][NextAgent]_vars

\* C21: for each of the five kinds, an id wrapped into an AgentID and
\* narrowed to the same kind comes back as it was, and narrowed to any
\* other kind fails with WrongAgentIDType.
C21_AgentIDRoundTrip ==
    last.op = "try_from" =>
        IF last.in.to = last.in.idty
        THEN last.res.ok /\ last.res.id = last.in.val
        ELSE ~last.res.ok /\ last.res.err = WrongAgentIDType

\* a member id that reads like a company's, asked for as a company id
C21_Witness ==
    /\ last.op = "try_from"
    /\ last.in.idty = "CompanyMemberID"
    /\ last.in.to = "CompanyID"
    /\ last.in.val \in CompanyIDs
    /\ ~last.res.ok
    /\ last.res.err = WrongAgentIDType

(***************************************************************************)
(* Costs arithmetic: two cost vectors are merged and the merge undone      *)
(***************************************************************************)
CostVectors == [Categories -> (0 - MaxCost)..MaxCost]

CostsMergeNegate ==
    /\ last = NoCall
    /\ \E a \in CostVectors, b \in CostVectors :
        last' = [op |-> "costs",
                 in |-> [a |-> a, b |-> b],
                 res |-> [merged |-> costs_add(a, b),
                          undone |-> costs_add(costs_add(a, b), costs_negate(b)),
                          minus |-> costs_sub(a, b),
                          zero |-> costs_is_zero(costs_add(a, b))]]
    /\ UNCHANGED storage

NextCosts == CostsMergeNegate

SpecCosts == Init /\ [][NextCosts]_vars

\* C22: merge(merge(a, b), negate(b)) is a in every category; the merge is
\* the plain sum, negative where the sum is negative; a - b is
\* merge(a, negate(b)); a Costs is zero exactly when every category is 0.
C22_CostsReversible ==
    last.op = "costs" =>
        LET a == last.in.a
            b == last.in.b
        IN  /\ last.res.undone = a
            /\ \A c \in Categories : last.res.merged[c] = a[c] + b[c]
            /\ last.res.minus = costs_add(a, costs_negate(b))
            /\ last.res.zero <=> (\A c \in Categories : a[c] + b[c] = 0)

\* a merge that goes below zero in one category and is zero in the other
C22_Witness ==
    /\ last.op = "costs"
    /\ last.res.merged["labor:lawyer"] < 0
    /\ last.res.merged["resource:widget"] = 0
    /\ last.in.b["resource:widget"] # 0
    /\ ~last.res.zero
    /\ last.res.undone = last.in.a

(***************************************************************************)
(* Two clients of one storage: each reads two processes, calls             *)
(* deliver_service on what it read, and has the returned batch applied as  *)
(* a whole.  Here `last` holds the call of each client.                    *)
(***************************************************************************)
Clients == {"k1", "k2"}

\* the stored process with the given id, as storage first holds it
ProcessOf(id) == CHOOSE p \in Processes : p.id = id

\* the company that owns a process, active and not deleted
OwnerOf(process) == [id |-> process.company_id, active |-> TRUE, deleted |-> None]

\* the category-wise sum of the costs of the stored processes
RECURSIVE total_costs(_, _)
total_costs(store, ids) ==
    IF ids = {} THEN Costs(0, 0)
    ELSE LET i == CHOOSE i \in ids : TRUE
         IN  costs_add(store[i].costs, total_costs(store, ids \ {i}))

\* stale tells whether a batch was applied after another batch had changed
\* a process its client had read
InitClients ==
    /\ last = [k \in Clients |-> NoCall]
    /\ storage = [processes |-> [i \in ProcessIDs |-> ProcessOf(i)], stale |-> FALSE]

\* client k reads two different processes from storage and settles what to
\* move; it acts for the company owning the first, of which it is a member
\* holding the permissions
ClientRead(k) ==
    /\ last[k].op = "none"
    /\ \E f \in ProcessIDs, t \in ProcessIDs, move_costs \in MoveCosts, now \in Times :
        /\ f # t
        /\ last' = [last EXCEPT ![k] =
            [op |-> "read",
             in |-> [caller |-> [id |-> "u1", permissions |-> Permissions],
                     member |-> [user_id |-> "u1",
                                 company_id |-> storage.processes[f].company_id,
                                 permissions |-> CompanyPermissions],
                     company_from |-> OwnerOf(storage.processes[f]),
                     company_to |-> OwnerOf(storage.processes[t]),
                     id |-> "e1",
                     process_from |-> storage.processes[f],
                     process_to |-> storage.processes[t],
                     move_costs |-> move_costs,
                     now |-> now],
             res |-> Ok(<<>>)]]
    /\ UNCHANGED storage

\* client k calls deliver_service on what it read
ClientCall(k) ==
    /\ last[k].op = "read"
    /\ LET in == last[k].in
       IN  last' = [last EXCEPT ![k] =
            [op |-> "deliver_service",
             in |-> in,
             res |-> deliver_service(in.caller, in.member, in.company_from, in.company_to,
                        in.id, in.process_from, in.process_to, in.move_costs, in.now)]]
    /\ UNCHANGED storage

\* storage applies the batch of client k, all of it in one step
StorageApply(k) ==
    /\ last[k].op = "deliver_service"
    /\ last[k].res.ok
    /\ storage' =
        [processes |-> apply_batch(storage.processes, last[k].res.mods),
         stale |-> \/ storage.stale
                   \/ storage.processes[last[k].in.process_from.id] # last[k].in.process_from
                   \/ storage.processes[last[k].in.process_to.id] # last[k].in.process_to]
    /\ last' = [last EXCEPT ![k].op = "applied"]

NextClients ==
    \E k \in Clients :
        \/ ClientRead(k)
        \/ ClientCall(k)
        \/ StorageApply(k)

SpecClients == InitClients /\ [][NextClients]_vars

\* the sum of the costs of all stored processes is what it was at first
TotalConserved ==
    total_costs(storage.processes, ProcessIDs) =
        total_costs([i \in ProcessIDs |-> ProcessOf(i)], ProcessIDs)

BothApplied == \A k \in Clients : last[k].op = "applied"

ClockTimes == {t \in Times : t >= storage.clock}

\* storage starts with no commitment, the clock at the first time;
\* first_deleted keeps the deleted timestamp of the first delete applied
InitClock ==
    /\ last = NoCall
    /\ storage = [commitment |-> None, clock |-> 1, first_deleted |-> None]

ClockCommitmentCreate ==
    /\ last = NoCall
    /\ storage.commitment = None
    /\ \E caller \in LifeCallers, member \in LifeMembers, company \in LifeCompanies,
          args \in LifeCommitmentCreateArgs, now \in ClockTimes :
        LET agreement == CHOOSE a \in Agreements : Len(a.participants) = 2
        IN  last' = [op |-> "commitment_create",
                     in |-> [caller |-> caller, member |-> member, company |-> company,
                             agreement |-> agreement, args |-> args, now |-> now],
                     res |-> commitment_create(caller, member, company, agreement,
                                args, now)]
    /\ UNCHANGED storage

ClockCommitmentUpdate ==
    /\ last = NoCall
    /\ IsSome(storage.commitment)
    /\ \E caller \in LifeCallers, member \in LifeMembers, company \in LifeCompanies,
          args \in CommitmentUpdateArgs, now \in ClockTimes :
        last' = [op |-> "commitment_update",
                 in |-> [caller |-> caller, member |-> member, company |-> company,
                         subject |-> Unwrap(storage.commitment), args |-> args, now |-> now],
                 res |-> commitment_update(caller, member, company,
                            Unwrap(storage.commitment), args, now)]
    /\ UNCHANGED storage

ClockCommitmentDelete ==
    /\ last = NoCall
    /\ IsSome(storage.commitment)
    /\ \E caller \in LifeCallers, member \in LifeMembers, company \in LifeCompanies,
          now \in ClockTimes :
        last' = [op |-> "commitment_delete",
                 in |-> [caller |-> caller, member |-> member, company |-> company,
                         subject |-> Unwrap(storage.commitment), now |-> now],
                 res |-> commitment_delete(caller, member, company,
                            Unwrap(storage.commitment), now)]
    /\ UNCHANGED storage

\* storage applies the batch of a successful call: the record replaces the
\* stored one and the clock moves to the call's now
ClockApplyBatch ==
    /\ Called
    /\ last.res.ok
    /\ LET mod == last.res.mods[1]
       IN  storage' = [commitment |-> Some(mod.model),
                       clock |-> last.in.now,
                       first_deleted |-> IF storage.first_deleted = None
                                         THEN mod.model.deleted
                                         ELSE storage.first_deleted]
    /\ last' = NoCall

\* an error comes back with no batch: nothing is applied, the clock stays
ClockReturnError ==
    /\ Called
    /\ ~last.res.ok
    /\ last' = NoCall
    /\ UNCHANGED storage

NextClock ==
    \/ ClockCommitmentCreate
    \/ ClockCommitmentUpdate
    \/ ClockCommitmentDelete
    \/ ClockApplyBatch
    \/ ClockReturnError

SpecClock == InitClock /\ [][NextClock]_vars

\* C26: every record of a commitment created, updated and deleted by
\* successful calls at non-decreasing times has created <= updated; once its
\* deleted timestamp is set, deleted >= updated, and the deleted timestamp
\* is the one the first delete set.
C26_TimestampsOrdered ==
    IsSome(storage.commitment) =>
        LET c == Unwrap(storage.commitment)
        IN  /\ c.created <= c.updated
            /\ c.deleted # None =>
                /\ Unwrap(c.deleted) >= c.updated
                /\ c.deleted = storage.first_deleted

\* the parts of C26 the records do satisfy: created <= updated, and a
\* deleted timestamp that no later successful call changes or clears
ClockCreatedBeforeUpdated ==
    IsSome(storage.commitment) =>
        Unwrap(storage.commitment).created <= Unwrap(storage.commitment).updated

ClockDeletedKept ==
    IsSome(storage.commitment) =>
        Unwrap(storage.commitment).deleted = storage.first_deleted
====
